---------------------------- MODULE Spec2Model ----------------------------
(***************************************************************************)
(* A model of mal-2-crunchyroll (src/src/main.rs): the paginated read of   *)
(* the MyAnimeList list (read_mal_entries), the title matcher (same_title),*)
(* the mark call with its token refresh (MarkAsWatch::mark) and the        *)
(* reconciliation loop of main.                                            *)
(*                                                                         *)
(* Strings are sequences of one-character strings, so that len(), slicing  *)
(* and the edit distance are computed and not assumed.  Only ASCII titles  *)
(* are modelled: there the byte length used by same_title and the char     *)
(* count used by the levenshtein crate agree.  Dates are day numbers       *)
(* (days since 1970-01-01, midnight UTC); an episode's air date is a day   *)
(* number too, so the model has a resolution of one day.                   *)
(***************************************************************************)
EXTENDS Integers, Sequences, FiniteSets, TLC

\* Option<T>: None is the empty sequence, Some(x) the sequence of x alone.
None == << >>
Some(x) == <<x>>
unwrap(o) == o[1]

Min(a, b) == IF a < b THEN a ELSE b
Max(a, b) == IF a < b THEN b ELSE a
Abs(a) == IF a < 0 THEN 0 - a ELSE a

---------------------------------------------------------------------------
(* Strings                                                                 *)

Upper == <<"A", "B", "C", "D", "E", "F", "G", "H", "I", "J", "K", "L", "M",
           "N", "O", "P", "Q", "R", "S", "T", "U", "V", "W", "X", "Y", "Z">>
Lower == <<"a", "b", "c", "d", "e", "f", "g", "h", "i", "j", "k", "l", "m",
           "n", "o", "p", "q", "r", "s", "t", "u", "v", "w", "x", "y", "z">>

\* char::to_lowercase on an ASCII character
to_lowercase_char(c) ==
    IF \E i \in 1..Len(Upper) : Upper[i] = c
    THEN Lower[CHOOSE i \in 1..Len(Upper) : Upper[i] = c]
    ELSE c

\* str::to_lowercase
to_lowercase(s) == [i \in 1..Len(s) |-> to_lowercase_char(s[i])]

\* One row of the Wagner-Fischer table: the distances from a[1..i] to
\* every prefix of b, from the row of a[1..i-1].  (The tests on Len force
\* the row built so far before the next step uses it.)
RECURSIVE LevRow(_, _, _, _, _)
LevRow(prev, ch, b, j, acc) ==
    IF j > Len(b) THEN acc
    ELSE LET cost == IF ch = b[j] THEN 0 ELSE 1
             v == Min(Min(prev[j + 1] + 1, acc[j] + 1), prev[j] + cost)
             next == Append(acc, v)
         IN IF Len(next) = j + 1 THEN LevRow(prev, ch, b, j + 1, next) ELSE next

RECURSIVE LevRows(_, _, _, _)
LevRows(a, b, i, prev) ==
    IF i > Len(a) THEN prev[Len(b) + 1]
    ELSE LET row == LevRow(prev, a[i], b, 1, <<i>>)
         IN IF Len(row) = Len(prev) THEN LevRows(a, b, i + 1, row) ELSE 0 - 1

\* levenshtein::levenshtein(a, b): the edit distance (insertion, deletion,
\* substitution, each of cost 1).
levenshtein(a, b) == LevRows(a, b, 1, [j \in 1..(Len(b) + 1) |-> j - 1])

\* same_title with the threshold excluded
same_title_strict(p, s) ==
    LET n == Len(p)
    IN IF Len(s) < n \/ n = 0 THEN FALSE
       ELSE 1000 * levenshtein(p, SubSeq(s, 1, n)) < 125 * n

\* fn same_title(p, s): score = levenshtein(p, s[..n]) / n <= 0.125.  The
\* f32 quotient d / n is compared as the rational it rounds: for n below
\* 2^24 the rounded quotient is <= 0.125 exactly when d / n is.
same_title(p, s) ==
    LET n == Len(p)
    IN IF Len(s) < n \/ n = 0 THEN FALSE
       ELSE 1000 * levenshtein(p, SubSeq(s, 1, n)) <= 125 * n

\* fn get_node_title(node)
get_node_title(node) ==
    IF node.alternative_titles = None THEN node.title
    ELSE LET x == unwrap(node.alternative_titles)
         IN IF x.en # None /\ Len(unwrap(x.en)) > 0
            THEN unwrap(x.en)
            ELSE node.title

---------------------------------------------------------------------------
(* Dates                                                                   *)

Digits == <<"0", "1", "2", "3", "4", "5", "6", "7", "8", "9">>
is_digit(c) == \E i \in 1..Len(Digits) : Digits[i] = c
to_digit(c) == (CHOOSE i \in 1..Len(Digits) : Digits[i] = c) - 1

\* One of the loops of parse_date over the shared iterator txt: reads
\* digits from position i until a "-" (consumed) or the end.  dash tells
\* whether "-" ends the field (year, month) or is invalid (day).
RECURSIVE parse_field(_, _, _, _)
parse_field(x, i, acc, dash) ==
    IF i > Len(x) THEN [value |-> acc, next |-> i, panic |-> FALSE]
    ELSE IF is_digit(x[i]) THEN parse_field(x, i + 1, 10 * acc + to_digit(x[i]), dash)
    ELSE IF dash /\ x[i] = "-" THEN [value |-> acc, next |-> i + 1, panic |-> FALSE]
    ELSE [value |-> acc, next |-> i, panic |-> TRUE]

is_leap(y) == (y % 4 = 0 /\ y % 100 # 0) \/ y % 400 = 0
days_in_month(y, m) ==
    IF m = 2 THEN (IF is_leap(y) THEN 29 ELSE 28)
    ELSE IF m \in {4, 6, 9, 11} THEN 30 ELSE 31

\* The day number of a proleptic Gregorian date: days since 1970-01-01.
days_from_civil(y, m, d) ==
    LET yy == IF m <= 2 THEN y - 1 ELSE y
        era == yy \div 400
        yoe == yy - era * 400
        mp == IF m > 2 THEN m - 3 ELSE m + 9
        doy == (153 * mp + 2) \div 5 + d - 1
        doe == yoe * 365 + yoe \div 4 - yoe \div 100 + doy
    IN era * 146097 + doe - 719468

\* fn parse_date(x): Some(day number), or None where the code panics (an
\* invalid character, or NaiveDate::from_ymd_opt(..).unwrap() on a date
\* that does not exist).  Absent or zero month and day count as 1.
parse_date(x) ==
    LET yr == parse_field(x, 1, 0, TRUE)
        mo == parse_field(x, yr.next, 0, TRUE)
        dy == parse_field(x, mo.next, 0, FALSE)
        month == Max(mo.value, 1)
        day == Max(dy.value, 1)
    IN IF yr.panic \/ mo.panic \/ dy.panic THEN None
       ELSE IF month > 12 \/ day > days_in_month(yr.value, month) THEN None
       ELSE Some(days_from_civil(yr.value, month, day))

\* let max_date_difference = chrono::TimeDelta::days(2*30), in days
max_date_difference == 2 * 30

---------------------------------------------------------------------------
(* The Streamer's answers to a mark POST                                   *)

\* No HTTP answer: reqwest's execute() returned Err (a transport error).
NoAnswer == 0
Answers == {NoAnswer, 200, 401, 500}

\* Response::error_for_status is Err for a 4xx or a 5xx status.
error_for_status(status) == status >= 400 /\ status <= 599

\* mark retrying after any error status, not only after 401
mark_retry_any_error(content_id, token, answers) ==
    LET first == [content_id |-> content_id, token |-> token, answer |-> answers[1]]
    IN IF answers[1] = NoAnswer
       THEN [posts |-> <<first>>, refreshes |-> 0, token |-> token, ok |-> FALSE]
       ELSE IF error_for_status(answers[1])
       THEN LET retry == [content_id |-> content_id, token |-> token + 1,
                          answer |-> answers[2]]
            IN [posts |-> <<first, retry>>, refreshes |-> 1, token |-> token + 1,
                ok |-> answers[2] # NoAnswer /\ ~error_for_status(answers[2])]
       ELSE [posts |-> <<first>>, refreshes |-> 0, token |-> token, ok |-> TRUE]

\* MarkAsWatch::mark(content_id), with _mark_internal and update_token.
\* token is current_bearer_token, counted as the number of tokens taken
\* from the session so far; answers[k] is what the Streamer answers to the
\* k-th POST of this call.  The result holds the POSTs sent, the number of
\* update_token calls, the token left in the adapter and Ok / Err.
mark(content_id, token, answers) ==
    LET first == [content_id |-> content_id, token |-> token, answer |-> answers[1]]
    IN IF answers[1] = NoAnswer
       THEN [posts |-> <<first>>, refreshes |-> 0, token |-> token, ok |-> FALSE]
       ELSE IF answers[1] = 401
       THEN LET retry == [content_id |-> content_id, token |-> token + 1,
                          answer |-> answers[2]]
            IN [posts |-> <<first, retry>>, refreshes |-> 1, token |-> token + 1,
                ok |-> answers[2] # NoAnswer /\ ~error_for_status(answers[2])]
       ELSE [posts |-> <<first>>, refreshes |-> 0, token |-> token,
             ok |-> ~error_for_status(answers[1])]

\* Whether a mark call met a failure: an answer other than 200 (it then
\* uses up one of the MaxFaults failing remote calls a run may meet).
mark_faults(m) == IF \E k \in 1..Len(m.posts) : m.posts[k].answer # 200 THEN 1 ELSE 0

---------------------------------------------------------------------------
(* The Tracker's list                                                      *)

\* let max_page_size = 1000
max_page_size == 1000

\* The entries of the Tracker's list that the user has watched; every
\* other entry of the list is a filler: an entry without list status or
\* with no episode watched.
TrackerNodes == <<
    [title |-> <<"S", "h", "o", "w">>,
     alternative_titles |-> None,
     start_date |-> Some(<<"2", "0", "1", "9", "-", "0", "4", "-", "0", "5">>),
     num_episodes_watched |-> 2],
    [title |-> <<"S", "h", "o", "u", " ", "2">>,
     alternative_titles |-> Some([en |-> Some(<<"S", "h", "o", "w", " ", "2">>)]),
     start_date |-> Some(<<"2", "0", "1", "9", "-", "0", "7">>),
     num_episodes_watched |-> 1],
    [title |-> <<"S", "H", "O", "W">>,
     alternative_titles |-> Some([en |-> Some(<< >>)]),
     start_date |-> None,
     num_episodes_watched |-> 3] >>

\* Bounds of the model: the watched entries of a list, the full pages of
\* a list, the entries of a last, short page, and the remote calls that
\* fail in a run.
MaxEntries == 2
MaxFullPages == 2
ShortPage == 300
MaxFaults == 1

\* The sizes of the Tracker's list: full pages plus a rest.
Rests == {0, 2, ShortPage}
RemoteLengths == {k * max_page_size + r : k \in 0..MaxFullPages, r \in Rests}

RECURSIVE SeqsUpTo(_, _)
SeqsUpTo(S, n) ==
    IF n = 0 THEN {<< >>}
    ELSE LET shorter == SeqsUpTo(S, n - 1)
         IN shorter \cup {Append(q, x) : q \in {q \in shorter : Len(q) = n - 1}, x \in S}

\* A list of n entries with the watched entries ks (indices into
\* TrackerNodes) at its head or at its tail, in the order of ks.
Remote(n, ks, place) ==
    LET shift == IF place = "head" THEN 0 ELSE n - Len(ks)
    IN [n |-> n, watched |-> [i \in {shift + j : j \in 1..Len(ks)} |-> ks[i - shift]]]

\* The lists a run may read: a single short page with any watched entries
\* in any order, and the lists of every size with the first watched
\* entries of TrackerNodes at the head or at the tail.
Remotes ==
    {Remote(ShortPage, ks, "head") :
        ks \in {q \in SeqsUpTo(1..Len(TrackerNodes), MaxEntries) : Len(q) <= ShortPage}}
    \cup
    UNION {{Remote(n, [j \in 1..k |-> j], place) :
                k \in 0..Min(Min(MaxEntries, Len(TrackerNodes)), n),
                place \in {"head", "tail"}} :
           n \in RemoteLengths}

\* The i-th entry (AnimeListNode) of the list r, counted from 1.  A filler
\* has no list status (even i) or no episode watched (odd i).
RemoteEntry(r, i) ==
    IF i \in DOMAIN r.watched
    THEN LET n == TrackerNodes[r.watched[i]]
         IN [node |-> [id |-> i, title |-> n.title,
                       alternative_titles |-> n.alternative_titles,
                       start_date |-> n.start_date],
             list_status |-> Some([num_episodes_watched |-> n.num_episodes_watched])]
    ELSE [node |-> [id |-> i, title |-> <<"S", "h", "o", "w">>,
                    alternative_titles |-> None, start_date |-> None],
          list_status |-> IF i % 2 = 0 THEN None
                          ELSE Some([num_episodes_watched |-> 0])]

\* What the Tracker answers to GetUserAnimeList with this offset and limit
RemotePage(r, off, limit) ==
    [i \in 1..Min(limit, Max(r.n - off, 0)) |-> RemoteEntry(r, off + i)]

\* The filter of read_mal_entries without the test of the watched count
keep_entry_any_count(elt) == elt.list_status # None

\* The closure given to filter() in read_mal_entries
keep_entry(elt) ==
    IF elt.list_status = None THEN FALSE
    ELSE IF unwrap(elt.list_status).num_episodes_watched = 0 THEN FALSE
    ELSE TRUE

\* The next offset when the page size is not added to it
next_offset_stuck(off) == off

\* offset += max_page_size as u32
next_offset(off) == off + max_page_size

\* done = r.data.len() != (max_page_size as usize)
\* The last page told by the number of entries kept of it
last_page_by_kept(data) == Len(SelectSeq(data, keep_entry)) # max_page_size

last_page(data) == Len(data) # max_page_size

\* The Err arm dropping what was read so far
page_error_drops(out) == [done |-> TRUE, output |-> << >>]

\* The Err(e) arm of the match on the page: done = true, output untouched
page_error(out) == [done |-> TRUE, output |-> out]

\* The Ok(r) arm of the match on the page r.data
page_ok(out, data) ==
    [done |-> last_page(data), output |-> out \o SelectSeq(data, keep_entry)]

\* read_mal_entries returning the list in the order read
finish_list_in_order(out) == out

\* output.reverse()
reverse(out) == [i \in 1..Len(out) |-> out[Len(out) + 1 - i]]

---------------------------------------------------------------------------
(* The Streamer's catalog                                                  *)

Ep(id, number, y, m, d) ==
    [id |-> id, episode_number |-> number, episode_air_date |-> days_from_civil(y, m, d)]

\* Any of these series may be the first result of a search.
Catalog == {
    [title |-> <<"S", "h", "o", "w">>,
     seasons |-> <<
        [id |-> <<"G", "A">>, title |-> <<"S", "h", "o", "w">>, number_of_episodes |-> 2,
         episodes |-> <<Ep(<<"G", "A", "1">>, Some(1), 2019, 4, 5),
                        Ep(<<"G", "A", "2">>, Some(2), 2019, 4, 12)>>],
        [id |-> <<"G", "B">>, title |-> <<"S", "h", "o", "w", " ", "I", "I">>, number_of_episodes |-> 3,
         episodes |-> <<Ep(<<"G", "B", "0">>, Some(0), 2019, 5, 2),
                        Ep(<<"G", "B", "X">>, None, 2019, 5, 3),
                        Ep(<<"G", "B", "1">>, Some(1), 2019, 7, 1),
                        Ep(<<"G", "B", "2">>, Some(2), 2019, 7, 8)>>] >>],
    [title |-> <<"S", "H", "O", "W">>,
     seasons |-> <<
        [id |-> <<"G", "C">>, title |-> <<"S", "h", "o", "w", " ", "X">>, number_of_episodes |-> 1,
         episodes |-> <<Ep(<<"G", "C", "1">>, Some(1), 2019, 6, 4)>>],
        [id |-> <<"G", "E">>, title |-> <<"S", "h", "o", "w">>, number_of_episodes |-> 3,
         episodes |-> <<Ep(<<"G", "E", "1">>, Some(1), 2019, 9, 1),
                        Ep(<<"G", "E", "X">>, None, 2019, 9, 8)>>] >>],
    [title |-> <<"S", "h", "o">>,
     seasons |-> <<
        [id |-> <<"G", "F">>, title |-> <<"S", "h", "o", "w", " ", "Z", "e", "r", "o">>, number_of_episodes |-> 2,
         episodes |-> <<Ep(<<"G", "F", "1">>, Some(1), 2019, 2, 4)>>],
        [id |-> <<"G", "H">>, title |-> <<"G", "H">>, number_of_episodes |-> 2,
         episodes |-> <<Ep(<<"G", "H", "1">>, Some(1), 2019, 6, 3),
                        Ep(<<"G", "H", "2">>, Some(3), 2019, 6, 10)>>] >>],
    [title |-> <<"s", "h", "o", "w">>,
     seasons |-> <<
        [id |-> <<"G", "K">>, title |-> <<"S", "h", "o", "w", " ", "K">>, number_of_episodes |-> 1,
         episodes |-> <<Ep(<<"G", "K", "1">>, Some(1), 2019, 12, 1)>>] >>],
    [title |-> <<"S", "h", "o", "w", "s">>, seasons |-> << >>] }

---------------------------------------------------------------------------
(* The state of a run                                                      *)

VARIABLES
    pc,                    \* where the run stands: "read", "for", "season",
                           \* "episode", "done" (main returned Ok), "failed"
                           \* (main returned Err), "panicked"
    remote,                \* the Tracker's list
    offset, done, output,  \* the locals of read_mal_entries
    fetches,               \* the requests sent to the Tracker and their results
    animes,                \* the list read_mal_entries returned
    idx,                   \* the number of entries the for loop has taken
    title, air_start_date, status, found,   \* the locals of the for loop's body
    seasons, season_i,     \* the 'SEASON loop: its list and its position
    episodes, episode_i,   \* the loop marking episodes: its list and position
    treated_ids,           \* treated_ids
    current_bearer_token,  \* MarkAsWatch::current_bearer_token
    marks,                 \* the mark calls made, in order
    accepted,              \* the seasons that passed the season test, in order
    stdout,                \* the lines printed on the standard output
    faults,                \* the remote failures met so far
    listed,                \* the seasons whose episodes were requested
                           \* (season.episodes()) for the entry in hand
    st_p, st_s, st_result, \* a call of same_title on its own: inputs, result
    tracker_title, series_title,     \* the series test on its own: a pair of
    tracker_title2, series_title2,   \* titles, the same pair changed, and
    accept, accept2                  \* the decision for each

vars == <<pc, remote, offset, done, output, fetches, animes, idx, title,
          air_start_date, status, found, seasons, season_i, episodes,
          episode_i, treated_ids, current_bearer_token, marks, accepted,
          stdout, faults, listed, st_p, st_s, st_result, tracker_title, series_title,
          tracker_title2, series_title2, accept, accept2>>

fetch_vars == <<offset, done, output, fetches>>
entry_vars == <<title, air_start_date, status, found>>
season_vars == <<seasons, season_i>>
episode_vars == <<episodes, episode_i>>
mark_vars == <<current_bearer_token, marks>>
accept_vars == <<tracker_title, series_title, tracker_title2, series_title2,
                 accept, accept2>>
title_vars == <<st_p, st_s, st_result, accept_vars>>

\* The state after MarkAsWatch::new, before read_mal_entries is called
InitRun ==
    /\ offset = 0 /\ done = FALSE /\ output = << >> /\ fetches = << >>
    /\ animes = << >> /\ idx = 0
    /\ title = << >> /\ air_start_date = None /\ status = None /\ found = FALSE
    /\ seasons = << >> /\ season_i = 0
    /\ episodes = << >> /\ episode_i = 0
    /\ treated_ids = {}
    /\ current_bearer_token = 1
    /\ marks = << >> /\ accepted = << >> /\ stdout = << >>
    /\ faults = 0
    /\ listed = << >>

\* No pair of titles is under the series test on its own.
NoPair ==
    /\ tracker_title = << >> /\ series_title = << >>
    /\ tracker_title2 = << >> /\ series_title2 = << >>
    /\ accept = FALSE /\ accept2 = FALSE

Init ==
    /\ InitRun
    /\ pc = "read"
    /\ remote \in Remotes
    /\ st_p = << >> /\ st_s = << >> /\ st_result = FALSE
    /\ NoPair

\* A remote call may fail while fewer than MaxFaults failures were met.
MayFail == faults < MaxFaults

---------------------------------------------------------------------------
(* read_mal_entries                                                        *)

\* One round of the while loop: the request, and the page or the error.
ReadPage ==
    /\ pc = "read" /\ ~done
    /\ \/ /\ MayFail
          /\ fetches' = Append(fetches, [offset |-> offset, limit |-> max_page_size,
                                         ok |-> FALSE, len |-> 0])
          /\ faults' = faults + 1
          /\ done' = page_error(output).done
          /\ output' = page_error(output).output
       \/ LET data == RemotePage(remote, offset, max_page_size)
          IN /\ fetches' = Append(fetches, [offset |-> offset, limit |-> max_page_size,
                                            ok |-> TRUE, len |-> Len(data)])
             /\ faults' = faults
             /\ done' = page_ok(output, data).done
             /\ output' = page_ok(output, data).output
    /\ offset' = next_offset(offset)
    /\ UNCHANGED <<pc, remote, animes, idx, entry_vars, season_vars, episode_vars,
                   treated_ids, mark_vars, accepted, stdout, listed, title_vars>>

\* The end of read_mal_entries and its call in main:
\* let animes = read_mal_entries().await?
ReadReturn ==
    /\ pc = "read" /\ done
    /\ animes' = reverse(output)
    /\ pc' = "for"
    /\ UNCHANGED <<remote, fetch_vars, idx, entry_vars, season_vars, episode_vars,
                   treated_ids, mark_vars, accepted, stdout, faults, listed, title_vars>>

---------------------------------------------------------------------------
(* main: the loop over the entries                                         *)

println(line) == stdout' = Append(stdout, line)

\* println!("Found an episode 0 for {}", &season.title)
episode_0_line(season_title) == <<"F", "o", "u", "n", "d", " ", "a", "n", " ", "e", "p", "i", "s", "o", "d", "e", " ", "0", " ", "f", "o", "r", " ">> \o season_title

\* The mark call of the driver for the entry in hand: the call, its record
\* and the token it leaves.  The Err of a failed call is printed by dbg!
\* and dropped.
Mark(level, season, content_id) ==
    \E answers \in [1..2 -> Answers] :
        LET m == mark(content_id, current_bearer_token, answers)
        IN /\ faults + mark_faults(m) <= MaxFaults
           /\ faults' = faults + mark_faults(m)
           /\ current_bearer_token' = m.token
           /\ marks' = Append(marks, [entry |-> idx, level |-> level,
                                      season |-> season.id, content_id |-> content_id,
                                      posts |-> m.posts, refreshes |-> m.refreshes,
                                      ok |-> m.ok])

\* An air start date given to every entry: an entry without a start date
\* gets 2019-04-05.
entry_date_defaulted(elt) ==
    IF elt.node.start_date = None THEN Some(Some(days_from_civil(2019, 4, 5)))
    ELSE LET d == parse_date(unwrap(elt.node.start_date))
         IN IF d = None THEN None ELSE Some(d)

\* air_start_date of the entry (lines 250-259): None when parse_date
\* panics, Some(None) for an entry without a start date, Some(Some(day))
\* otherwise.
entry_date(elt) ==
    IF elt.node.start_date = None THEN Some(None)
    ELSE LET d == parse_date(unwrap(elt.node.start_date))
         IN IF d = None THEN None ELSE Some(d)

\* The top of the for loop's body up to the seasons of the series found.
ForEntry ==
    /\ pc = "for" /\ idx < Len(animes)
    /\ LET elt == animes[idx + 1]
           date == entry_date(elt)
           query == to_lowercase(get_node_title(elt.node))
       IN /\ idx' = idx + 1
          /\ listed' = << >>
          /\ IF date = None \/ elt.list_status = None
             THEN \* parse_date or status.unwrap() panics
                  /\ pc' = "panicked"
                  /\ UNCHANGED <<entry_vars, season_vars, stdout, faults>>
             ELSE /\ air_start_date' = unwrap(date)
                  /\ status' = elt.list_status
                  /\ title' = query
                  /\ found' = FALSE
                  /\ \/ \* the search has no result
                        /\ println(query)
                        /\ pc' = "for"
                        /\ UNCHANGED <<season_vars, faults>>
                     \/ \* the search fails: let series = s?
                        /\ MayFail
                        /\ faults' = faults + 1
                        /\ pc' = "failed"
                        /\ UNCHANGED <<season_vars, stdout>>
                     \/ \E series \in Catalog :
                          IF same_title(to_lowercase(series.title), query)
                          THEN \/ \* series.seasons().await? fails
                                  /\ MayFail
                                  /\ faults' = faults + 1
                                  /\ pc' = "failed"
                                  /\ UNCHANGED <<season_vars, stdout>>
                               \/ /\ seasons' = series.seasons
                                  /\ season_i' = 1
                                  /\ pc' = "season"
                                  /\ UNCHANGED <<stdout, faults>>
                          ELSE /\ println(query)
                               /\ pc' = "for"
                               /\ UNCHANGED <<season_vars, faults>>
    /\ UNCHANGED <<remote, fetch_vars, animes, episode_vars, treated_ids, mark_vars,
                   accepted, title_vars>>

\* The end of the for loop: Ok(())
ForEnd ==
    /\ pc = "for" /\ idx = Len(animes)
    /\ pc' = "done"
    /\ UNCHANGED <<remote, fetch_vars, animes, idx, entry_vars, season_vars,
                   episode_vars, treated_ids, mark_vars, accepted, stdout, faults,
                   listed, title_vars>>

---------------------------------------------------------------------------
(* main: the 'SEASON loop                                                  *)

\* The walk of a season's episodes with the window excluded no further
\* than its bounds: an episode exactly max_date_difference away is taken.
RECURSIVE season_walk_inclusive(_, _, _)
season_walk_inclusive(eps, i, date) ==
    IF i > Len(eps) THEN "invalid"
    ELSE IF Abs(eps[i].episode_air_date - date) <= max_date_difference THEN "valid"
    ELSE IF eps[i].episode_air_date > date + max_date_difference THEN "abandon"
    ELSE season_walk_inclusive(eps, i + 1, date)

\* The walk of a season's episodes giving the series up only on an episode
\* later than date + max_date_difference
RECURSIVE season_walk_late_only(_, _, _)
season_walk_late_only(eps, i, date) ==
    IF i > Len(eps) THEN "invalid"
    ELSE IF Abs(eps[i].episode_air_date - date) < max_date_difference THEN "valid"
    ELSE IF eps[i].episode_air_date > date + max_date_difference THEN "abandon"
    ELSE season_walk_late_only(eps, i + 1, date)

\* The walk of a season's episodes from the i-th one (lines 285-294):
\* "valid" when an episode lies in the window (valid_season = true; break),
\* "abandon" when an episode at or after date + max_date_difference is
\* reached first (break 'SEASON), "invalid" when the episodes run out.
RECURSIVE season_walk(_, _, _)
season_walk(eps, i, date) ==
    IF i > Len(eps) THEN "invalid"
    ELSE IF Abs(eps[i].episode_air_date - date) < max_date_difference THEN "valid"
    ELSE IF eps[i].episode_air_date >= date + max_date_difference THEN "abandon"
    ELSE season_walk(eps, i + 1, date)

\* A membership test that skips no season
is_treated_never(season, treated) == FALSE

\* treated_ids.contains(&season.id)
is_treated(season, treated) == season.id \in treated

\* What line 329 inserts: treated_ids.insert(season.title)
treated_key(season) == season.title

\* Lines 304-330 for the season that passed the test, up to the first
\* episode: the mark of the season, or the start of the loop over its
\* episodes.  ls: the seasons listed for the entry up to here.
Accept(season, ls) ==
    /\ found' = TRUE
    /\ accepted' = Append(accepted, [entry |-> idx, season |-> season.id,
                                     watched |-> unwrap(status).num_episodes_watched])
    /\ IF unwrap(status).num_episodes_watched = season.number_of_episodes
       THEN /\ Mark("season", season, season.id)
            /\ treated_ids' = treated_ids \cup {treated_key(season)}
            /\ pc' = "for"
            /\ listed' = ls
            /\ UNCHANGED <<episode_vars>>
       ELSE /\ listed' = Append(ls, season.id)
            /\ \/ \* season.episodes().await? fails
                  /\ MayFail
                  /\ faults' = faults + 1
                  /\ pc' = "failed"
                  /\ UNCHANGED <<episode_vars, treated_ids, mark_vars>>
               \/ /\ episodes' = season.episodes
                  /\ episode_i' = 1
                  /\ pc' = "episode"
                  /\ UNCHANGED <<treated_ids, mark_vars, faults>>

\* continue: the next season of the loop
NextSeason ==
    /\ season_i' = season_i + 1
    /\ UNCHANGED <<pc, found, episode_vars, treated_ids, mark_vars, accepted,
                   stdout, faults>>

\* The 'SEASON loop left with found = false: break 'SEASON or the seasons
\* ran out, then lines 335-337.
Unresolved ==
    /\ println(title)
    /\ pc' = "for"
    /\ UNCHANGED <<found, season_i, episode_vars, treated_ids, mark_vars, accepted,
                   faults>>

\* One round of the 'SEASON loop (lines 276-331), or its end.
Season ==
    /\ pc = "season"
    /\ IF season_i > Len(seasons)
       THEN Unresolved /\ UNCHANGED listed
       ELSE LET season == seasons[season_i]
                ls == Append(listed, season.id)
            IN IF is_treated(season, treated_ids)
               THEN NextSeason /\ UNCHANGED listed
               ELSE IF to_lowercase(season.title) # title
               THEN IF air_start_date # None
                    THEN \/ \* season.episodes().await? fails
                            /\ MayFail
                            /\ faults' = faults + 1
                            /\ pc' = "failed"
                            /\ listed' = ls
                            /\ UNCHANGED <<found, season_i, episode_vars, treated_ids,
                                           mark_vars, accepted, stdout>>
                         \/ LET walk == season_walk(season.episodes, 1,
                                                    unwrap(air_start_date))
                            IN IF walk = "valid"
                               THEN Accept(season, ls) /\ UNCHANGED <<season_i, stdout>>
                               ELSE IF walk = "abandon" THEN Unresolved /\ listed' = ls
                               ELSE NextSeason /\ listed' = ls
                    ELSE NextSeason /\ UNCHANGED listed
               ELSE Accept(season, listed) /\ UNCHANGED <<season_i, stdout>>
    /\ UNCHANGED <<remote, fetch_vars, animes, idx, title, air_start_date, status,
                   seasons, title_vars>>

\* One round of the loop over the episodes of the accepted season (lines
\* 312-327), or its end (lines 329-330).
Episode ==
    /\ pc = "episode"
    /\ LET season == seasons[season_i]
       IN IF episode_i > Len(episodes)
          THEN /\ treated_ids' = treated_ids \cup {treated_key(season)}
               /\ pc' = "for"
               /\ UNCHANGED <<episode_i, mark_vars, stdout, faults>>
          ELSE LET episode == episodes[episode_i]
                   number == episode.episode_number
               IN /\ episode_i' = episode_i + 1
                  /\ pc' = pc
                  /\ treated_ids' = treated_ids
                  /\ IF number # None
                        /\ unwrap(number) > unwrap(status).num_episodes_watched
                     THEN UNCHANGED <<mark_vars, stdout, faults>>
                     ELSE IF number # None /\ unwrap(number) = 0
                     THEN /\ println(episode_0_line(season.title))
                          /\ UNCHANGED <<mark_vars, faults>>
                     ELSE /\ Mark("episode", season, episode.id)
                          /\ stdout' = stdout
    /\ UNCHANGED <<remote, fetch_vars, animes, idx, entry_vars, season_vars, episodes,
                   accepted, listed, title_vars>>

---------------------------------------------------------------------------
(* The run                                                                 *)

Next == ReadPage \/ ReadReturn \/ ForEntry \/ ForEnd \/ Season \/ Episode

Spec == Init /\ [][Next]_vars

---------------------------------------------------------------------------
(* same_title on its own                                                   *)

\* Bound of the model: the length of the short titles
MaxLen == 3

Run(c, n) == [i \in 1..n |-> c]

\* Every title of at most MaxLen letters over a and b, foo and foobar, and
\* the titles around the lengths 8 and 16, where one and two edits reach
\* the threshold: runs of a, and runs of a that start with up to three b.
ShortTitles == SeqsUpTo({"a", "b"}, MaxLen) \cup {<<"f", "o", "o">>,
                                                  <<"f", "o", "o", "b", "a", "r">>}
Candidates == ShortTitles \cup {Run("a", n) : n \in 7..9} \cup {Run("a", n) : n \in 15..17}
Queries == ShortTitles \cup {Run("b", k) \o Run("a", n - k) : n \in 7..18, k \in 0..3}

InitTitle ==
    /\ InitRun
    /\ pc = "same_title"
    /\ remote = Remote(0, << >>, "head")
    /\ st_p \in Candidates /\ st_s \in Queries /\ st_result = FALSE
    /\ NoPair

\* A call same_title(p, s)
SameTitle ==
    /\ pc = "same_title"
    /\ st_result' = same_title(st_p, st_s)
    /\ pc' = "returned"
    /\ UNCHANGED <<remote, fetch_vars, animes, idx, entry_vars, season_vars,
                   episode_vars, treated_ids, mark_vars, accepted, stdout, faults,
                   listed, st_p, st_s, accept_vars>>

NextTitle == SameTitle

SpecTitle == InitTitle /\ [][NextTitle]_vars

---------------------------------------------------------------------------
(* The series test on its own                                              *)

\* The decision of lines 264-274 for an entry whose title (get_node_title)
\* is tracker and a series whose title is series:
\* same_title(&series.title.to_lowercase(), &title)
series_accepted(tracker, series) ==
    same_title(to_lowercase(series), to_lowercase(tracker))

to_uppercase_char(c) ==
    IF \E i \in DOMAIN Lower : Lower[i] = c
    THEN Upper[CHOOSE i \in DOMAIN Lower : Lower[i] = c]
    ELSE c

to_uppercase(s) == [i \in DOMAIN s |-> to_uppercase_char(s[i])]

RECURSIVE trim_end(_)
trim_end(s) ==
    IF s # << >> /\ s[Len(s)] = " " THEN trim_end(SubSeq(s, 1, Len(s) - 1)) ELSE s

\* The title with the case of its letters changed
CaseChanges(s) == {to_lowercase(s), to_uppercase(s)}

\* The title with trailing whitespace appended or removed
SpaceChanges(s) == {s \o <<" ">>, trim_end(s)}

PairTitles == {<<"S", "h", "o", "w">>, <<"s", "h", "o", "w", " ">>,
               <<"S", "H", "O">>, <<"S", "h", "o", "w", " ", "2">>,
               <<"s", "h", "o", "w", " ", "2", " ">>, <<"S", "h", "o", "w", "s", "A", "B", "C">>}

InitPair ==
    /\ InitRun
    /\ pc = "series_test"
    /\ remote = Remote(0, << >>, "head")
    /\ st_p = << >> /\ st_s = << >> /\ st_result = FALSE
    /\ tracker_title \in PairTitles /\ series_title \in PairTitles
    /\ tracker_title2 \in {tracker_title} \cup CaseChanges(tracker_title)
                                          \cup SpaceChanges(tracker_title)
    /\ series_title2 \in {series_title} \cup CaseChanges(series_title)
                                        \cup SpaceChanges(series_title)
    /\ accept = FALSE /\ accept2 = FALSE

\* The series test on the pair and on the changed pair
SeriesTest ==
    /\ pc = "series_test"
    /\ accept' = series_accepted(tracker_title, series_title)
    /\ accept2' = series_accepted(tracker_title2, series_title2)
    /\ pc' = "tested"
    /\ UNCHANGED <<remote, fetch_vars, animes, idx, entry_vars, season_vars,
                   episode_vars, treated_ids, mark_vars, accepted, stdout, faults,
                   listed, st_p, st_s, st_result, tracker_title, series_title,
                   tracker_title2, series_title2>>

NextPair == SeriesTest

SpecPair == InitPair /\ [][NextPair]_vars

---------------------------------------------------------------------------
(* Properties                                                              *)

AllSeasons == UNION {{series.seasons[i] : i \in DOMAIN series.seasons} : series \in Catalog}
SeasonById(id) == CHOOSE season \in AllSeasons : season.id = id
ContentIds(ms) == [i \in DOMAIN ms |-> ms[i].content_id]
MarksOfEntry(e) == SelectSeq(marks, LAMBDA m : m.entry = e)
Watched(elt) == unwrap(elt.list_status).num_episodes_watched

\* The read of the list is over: read_mal_entries has returned.
ListRead == pc \notin {"read", "same_title", "returned", "series_test", "tested"}

\* C1: no season identifier receives more than one season-level mark call
\* mark(season_id) in a run, also when two entries both pass the season
\* test for the same season.
C1_SeasonMarkedAtMostOnce ==
    \A i, j \in DOMAIN marks :
        (/\ marks[i].level = "season" /\ marks[j].level = "season"
         /\ marks[i].content_id = marks[j].content_id) => i = j

\* The episodes the claim C2 wants marked: number undefined or in 1..watched.
Eligible(episode, watched) ==
    \/ episode.episode_number = None
    \/ /\ unwrap(episode.episode_number) >= 1
       /\ unwrap(episode.episode_number) <= watched

ExpectedMarks(a) ==
    LET season == SeasonById(a.season)
    IN IF a.watched = season.number_of_episodes THEN <<season.id>>
       ELSE LET es == SelectSeq(season.episodes, LAMBDA e : Eligible(e, a.watched))
            IN [i \in DOMAIN es |-> es[i].id]

\* The driver has left the k-th accepted season: it is not in the loop
\* over its episodes.
Settled(k) == ~(k = Len(accepted) /\ pc = "episode")

\* C2: for every accepted season the mark calls issued for it are exactly
\* one call with the season's id when watched equals the season's episode
\* count, and otherwise one call per episode whose number is undefined or
\* in 1..watched, in episode order, and no other call.
C2_MarksOfAcceptedSeason ==
    \A k \in DOMAIN accepted :
        Settled(k) => ContentIds(MarksOfEntry(accepted[k].entry)) = ExpectedMarks(accepted[k])

\* What is left of C2 in the code: it holds of every accepted season
\* unless the listing of its episodes failed, which ends the run.
MarksOfAcceptedSeasonUnlessFailed ==
    pc # "failed" => C2_MarksOfAcceptedSeason

\* C3: a transport error of the search, of the season listing or of the
\* episode listing abandons the entry in hand only: the later entries are
\* still processed and the run completes, so main never returns that error.
C3_TransportErrorAbandonsEntryOnly == pc # "failed"

\* C4: one mark call sends at most two POSTs and refreshes the token at
\* most once; a 401 answer to the first POST is followed by exactly one
\* refresh and one retry POST (with the new token), whatever the retry
\* answers; any other first answer is followed by neither.
C4_MarkRefreshesAndRetriesOnce ==
    \A i \in DOMAIN marks :
        LET m == marks[i]
        IN /\ Len(m.posts) \in {1, 2} /\ m.refreshes \in {0, 1}
           /\ \A k \in DOMAIN m.posts : m.posts[k].content_id = m.content_id
           /\ IF m.posts[1].answer = 401
              THEN /\ Len(m.posts) = 2 /\ m.refreshes = 1
                   /\ m.posts[2].token = m.posts[1].token + 1
              ELSE Len(m.posts) = 1 /\ m.refreshes = 0

\* A mark call whose first POST and whose retry were both answered 401
C4_Witness ==
    \E i \in DOMAIN marks :
        /\ Len(marks[i].posts) = 2
        /\ marks[i].posts[1].answer = 401 /\ marks[i].posts[2].answer = 401

\* C5: every entry the driver iterates has a list status and a watched
\* count of at least 1 (status.unwrap() never panics), and no mark call is
\* issued on behalf of an entry of the Tracker's list without list status
\* or with a watched count of 0.
C5_NoMarkForUnwatched ==
    /\ \A i \in DOMAIN animes : animes[i].list_status # None /\ Watched(animes[i]) >= 1
    /\ \A i \in DOMAIN marks :
          LET elt == RemoteEntry(remote, animes[marks[i].entry].node.id)
          IN elt.list_status # None /\ Watched(elt) >= 1
    /\ pc # "panicked"

\* A run that read a page holding entries without list status and entries
\* with no episode watched, and that issued a mark call.
C5_Witness ==
    /\ marks # << >>
    /\ \E i, j \in 1..fetches[1].len :
          /\ RemoteEntry(remote, i).list_status = None
          /\ RemoteEntry(remote, j).list_status # None
          /\ Watched(RemoteEntry(remote, j)) = 0

\* The air start date of an entry: None, or Some(day number)
DateOf(elt) ==
    IF elt.node.start_date = None THEN None ELSE parse_date(unwrap(elt.node.start_date))

\* The watched entries of the Tracker's list, in the order it serves them
Served == [i \in 1..Cardinality(DOMAIN remote.watched) |->
              RemoteEntry(remote, CHOOSE q \in DOMAIN remote.watched :
                  Cardinality({r \in DOMAIN remote.watched : r < q}) = i - 1)]

\* The dated entries of a list are in ascending (descending) date order.
Ascending(list) ==
    \A i, j \in DOMAIN list :
        (i < j /\ DateOf(list[i]) # None /\ DateOf(list[j]) # None)
            => unwrap(DateOf(list[i])) <= unwrap(DateOf(list[j]))
Descending(list) ==
    \A i, j \in DOMAIN list :
        (i < j /\ DateOf(list[i]) # None /\ DateOf(list[j]) # None)
            => unwrap(DateOf(list[i])) >= unwrap(DateOf(list[j]))

\* C6 as claimed: when the Tracker serves the list in ascending order of
\* air start date, the list the driver iterates front to back is in
\* ascending order of air start date.
C6_AscendingServedAscendingProcessed ==
    (ListRead /\ Ascending(Served)) => Ascending(animes)

\* C6 as amended: the list the driver iterates front to back holds the
\* kept entries in the reverse of the order in which the Tracker served
\* them; it is in ascending order of air start date when the Tracker
\* serves the list in descending order (newest first), and in descending
\* order when the Tracker serves it in ascending order.  (The order of the
\* dates is compared when the driver starts; the order of the entries,
\* by their position in the Tracker's list, in every state.)
C6_ProcessedInReverseOfServed ==
    ListRead =>
        /\ \A i, j \in DOMAIN animes : i < j => animes[i].node.id > animes[j].node.id
        /\ idx = 0 =>
              /\ Descending(Served) => Ascending(animes)
              /\ Ascending(Served) => Descending(animes)

\* A list served newest first and read whole: two entries with different
\* dates, the older one iterated first.
C6_Witness ==
    /\ ListRead /\ Descending(Served) /\ Len(animes) = 2
    /\ DateOf(animes[1]) # None /\ DateOf(animes[2]) # None
    /\ unwrap(DateOf(animes[1])) < unwrap(DateOf(animes[2]))

\* C7: the pages are requested at the offsets 0, 1000, 2000, ... in this
\* order, each with limit 1000; a request follows only a page of exactly
\* 1000 entries read without error, so none follows the first shorter
\* page or the first error; a list of n entries is read with at most
\* n / 1000 + 1 requests, and a list of two full pages and a short one
\* (2300 entries) with exactly three, at the offsets 0, 1000, 2000.
C7_Pagination ==
    /\ \A i \in DOMAIN fetches :
          /\ fetches[i].offset = (i - 1) * max_page_size
          /\ fetches[i].limit = max_page_size
          /\ i < Len(fetches) => fetches[i].ok /\ fetches[i].len = max_page_size
    /\ Len(fetches) <= remote.n \div max_page_size + 1
    /\ ListRead =>
          /\ fetches # << >>
          /\ ~fetches[Len(fetches)].ok \/ fetches[Len(fetches)].len < max_page_size
    /\ (/\ ListRead /\ remote.n = 2 * max_page_size + ShortPage
        /\ \A i \in DOMAIN fetches : fetches[i].ok)
          => [i \in DOMAIN fetches |-> fetches[i].offset]
                 = <<0, max_page_size, 2 * max_page_size>>

\* The list of two full pages and a short one, read without error
C7_Witness ==
    /\ ListRead /\ remote.n = 2 * max_page_size + ShortPage
    /\ Len(fetches) = 3 /\ \A i \in DOMAIN fetches : fetches[i].ok
    /\ fetches[3].len = ShortPage

\* The read of the list ended on a remote error.
FetchFailed == fetches # << >> /\ ~fetches[Len(fetches)].ok

\* C8: when the fetch of page k fails, read_mal_entries returns the kept
\* entries of the pages before it, all of them and nothing else (here:
\* checked when the driver starts), and the driver processes them: the
\* run is not ended by that error, and it ends only after every entry.
C8_PartialListAfterFetchError ==
    (ListRead /\ FetchFailed) =>
        /\ idx = 0 =>
              /\ pc \in {"for", "done"}
              /\ animes = reverse(SelectSeq(
                     RemotePage(remote, 0, (Len(fetches) - 1) * max_page_size), keep_entry))
        /\ pc = "failed" => idx >= 1
        /\ pc = "done" => idx = Len(animes)

\* A run whose second or later fetch failed, that kept entries of the
\* pages before it, marked for them and ended.
C8_Witness ==
    /\ pc = "done" /\ FetchFailed /\ Len(fetches) >= 2
    /\ animes # << >> /\ marks # << >>

\* The season the 'SEASON loop is about to test by its dates: not in
\* treated_ids, its title not the query's, the entry dated.
SeasonUnderDateTest ==
    /\ pc = "season" /\ season_i <= Len(seasons)
    /\ seasons[season_i].id \notin treated_ids
    /\ to_lowercase(seasons[season_i].title) # title
    /\ air_start_date # None

\* An episode that the walk reaches (no episode before it is later than
\* D + 60 days) airs within 60 days of D, the bounds included.
ReachedWithin60Inclusive ==
    LET eps == seasons[season_i].episodes
        D == unwrap(air_start_date)
    IN \E k \in DOMAIN eps :
          /\ Abs(eps[k].episode_air_date - D) <= 60
          /\ \A j \in 1..(k - 1) : ~(eps[j].episode_air_date > D + 60)

\* An episode that the walk reaches (every episode before it airs before
\* D + 60 days) airs less than 60 days from D.
ReachedWithin60Exclusive ==
    LET eps == seasons[season_i].episodes
        D == unwrap(air_start_date)
    IN \E k \in DOMAIN eps :
          /\ Abs(eps[k].episode_air_date - D) < 60
          /\ \A j \in 1..(k - 1) : eps[j].episode_air_date < D + 60

SeasonAccepted == Len(accepted') = Len(accepted) + 1

\* C9 as claimed: a season under the date test is accepted when an episode
\* reached by the walk airs within 60 days of D on either side, the bounds
\* D - 60 days and D + 60 days included (unless the listing fails).
C9_AcceptedWithin60Inclusive ==
    [][(SeasonUnderDateTest /\ ReachedWithin60Inclusive /\ pc' # "failed")
           => SeasonAccepted]_vars

\* C9 as amended: a season under the date test is accepted exactly when an
\* episode reached by the walk airs strictly less than 60 days from D; an
\* episode airing exactly 60 days before or after D does not make the
\* season accepted (unless the listing fails).
C9_AcceptedWithin60Exclusive ==
    [][(SeasonUnderDateTest /\ pc' # "failed")
           => (SeasonAccepted <=> ReachedWithin60Exclusive)]_vars

\* A season accepted by its dates for an entry whose date is 59 days from
\* an episode of the season.
C9_Witness ==
    \E k \in DOMAIN accepted :
        LET season == SeasonById(accepted[k].season)
            elt == animes[accepted[k].entry]
        IN /\ to_lowercase(season.title) # to_lowercase(get_node_title(elt.node))
           /\ DateOf(elt) # None
           /\ \E e \in DOMAIN season.episodes :
                 Abs(season.episodes[e].episode_air_date - unwrap(DateOf(elt))) = 59

\* C10: same_title(c, q) is true exactly when c is not empty, q is at
\* least as long as c, and 8 times the edit distance from c to the first
\* len(c) characters of q is at most len(c); the candidate "foobar" is
\* rejected for the query "foo", and the empty candidate for any query.
C10_SameTitleNearPrefix ==
    pc = "returned" =>
        /\ st_result <=>
              /\ st_p # << >>
              /\ Len(st_s) >= Len(st_p)
              /\ 8 * levenshtein(st_p, SubSeq(st_s, 1, Len(st_p))) <= Len(st_p)
        /\ (st_p = <<"f", "o", "o", "b", "a", "r">> /\ st_s = <<"f", "o", "o">>) => ~st_result
        /\ st_p = << >> => ~st_result

\* A candidate of 8 characters accepted with one edit: the threshold itself
C10_Witness ==
    /\ pc = "returned" /\ st_result
    /\ Len(st_p) = 8 /\ levenshtein(st_p, SubSeq(st_s, 1, 8)) = 1

\* The changed pair differs from the pair by the case of letters only.
CaseChanged ==
    /\ to_lowercase(tracker_title2) = to_lowercase(tracker_title)
    /\ to_lowercase(series_title2) = to_lowercase(series_title)

\* C11: the decision of the series test for a pair of titles does not
\* change when the case of letters of either title is changed or when
\* trailing whitespace is appended to or removed from either title.
C11_SeriesTestIgnoresCaseAndTrailingSpace ==
    pc = "tested" => accept2 = accept

\* What is left of C11 in the code: the decision does not change when
\* only the case of letters is changed.
SeriesTestIgnoresCase ==
    (pc = "tested" /\ CaseChanged) => accept2 = accept

\* The query title of the e-th entry of animes (line 264)
QueryTitle(e) == to_lowercase(get_node_title(animes[e].node))

\* The entry e had a season accepted.
HasAccepted(e) == \E k \in DOMAIN accepted : accepted[k].entry = e

\* The driver stands between two entries, or has returned Ok.
BetweenEntries == pc \in {"for", "done"}

\* The query titles of the entries taken so far for which no season was
\* accepted, in processing order
UnresolvedTitles ==
    LET es == SelectSeq([e \in 1..idx |-> e], LAMBDA e : ~HasAccepted(e))
    IN [i \in DOMAIN es |-> QueryTitle(es[i])]

\* C12: the lines written to the standard output are exactly the query
\* titles of the entries for which no season was accepted, one line per
\* such entry in processing order, and nothing else.
C12_StdoutIsUnresolvedTitles ==
    BetweenEntries => stdout = UnresolvedTitles

\* What is left of C12 in the code: the lines other than the report of an
\* episode numbered 0 are the query titles of the unresolved entries.
StdoutButEpisode0IsUnresolvedTitles ==
    BetweenEntries =>
        SelectSeq(stdout, LAMBDA line : \A s \in AllSeasons : line # episode_0_line(s.title))
            = UnresolvedTitles

\* The step is a mark call that failed: a transport error, or a status
\* other than 2xx on the first answer or on the retry.
FailedMarkStep == Len(marks') = Len(marks) + 1 /\ ~marks'[Len(marks')].ok

FailedMarks == {i \in DOMAIN marks : ~marks[i].ok}

\* The driver has left the entry e.
EntryLeft(e) == e < idx \/ (e = idx /\ pc \in {"for", "done"})

\* A failed mark call leaves the driver in the loop over the episodes, at
\* the next episode, or between two entries; the run fails only on a
\* failure that is not one of a mark call, and returns Ok only after the
\* last entry.
FailedMarkGoesOn ==
    /\ [][FailedMarkStep =>
             \/ pc' = "for"
             \/ pc' = "episode" /\ episode_i' = episode_i + 1]_vars
    /\ [](pc = "failed" => Cardinality(FailedMarks) < faults)
    /\ [](pc = "done" => idx = Len(animes))

\* C13: a failed mark call never stops the run: the driver goes on with
\* the remaining episodes of the season, the season's identifier is in
\* treated_ids once the entry is left, and the later entries are processed.
C13_FailedMarkNeverStopsRun ==
    /\ FailedMarkGoesOn
    /\ [](\A i \in FailedMarks :
            EntryLeft(marks[i].entry) => marks[i].season \in treated_ids)

\* What is left of C13 in the code: the same with the value that line 329
\* inserts, the season's title, in place of the identifier.
FailedMarkNeverStopsRunTitleInserted ==
    /\ FailedMarkGoesOn
    /\ [](\A i \in FailedMarks :
            EntryLeft(marks[i].entry)
                => treated_key(SeasonById(marks[i].season)) \in treated_ids)

\* The mark call m had its retry, after the refresh, answered 401 again.
Repeated401(m) == Len(m.posts) = 2 /\ m.posts[2].answer = 401

\* C14: a 401 answer to a mark is followed by one token refresh and one
\* retry; when the retry is answered 401 again the run ends: no later
\* episode or entry is processed.
C14_Repeated401EndsRun ==
    /\ [](\A i \in DOMAIN marks :
            marks[i].posts[1].answer = 401
                => marks[i].refreshes = 1 /\ Len(marks[i].posts) = 2)
    /\ [][(Len(marks') = Len(marks) + 1 /\ Repeated401(marks'[Len(marks')]))
             => pc' \notin {"for", "season", "episode"}]_vars

\* What the code does on a repeated 401: the mark call fails, and the
\* driver goes on as after any failed mark call.
Repeated401FailsMarkOnly ==
    [][(Len(marks') = Len(marks) + 1 /\ Repeated401(marks'[Len(marks')]))
          => ~marks'[Len(marks')].ok /\ pc' \in {"for", "episode"}]_vars

AcceptedIds == {accepted[k].season : k \in DOMAIN accepted}

\* C15: treated_ids is the set of the identifiers of the seasons accepted
\* so far (seen when the driver stands between two entries): it starts
\* empty, each acceptance inserts the identifier of the accepted season and
\* nothing else is inserted or removed; hence no season is accepted for
\* two entries.
C15_TreatedIsAcceptedIds ==
    /\ BetweenEntries => treated_ids = AcceptedIds
    /\ \A k, l \in DOMAIN accepted :
          accepted[k].season = accepted[l].season => k = l

\* What the code keeps in treated_ids: the titles of the seasons accepted
\* so far.
TreatedIsAcceptedTitles ==
    BetweenEntries => treated_ids = {treated_key(SeasonById(id)) : id \in AcceptedIds}

\* The season test of the entry in hand (lines 281-302), stated on the
\* season: its lowercased title is the query title, or the entry is dated
\* and an episode airs less than max_date_difference from that date while
\* every episode before it airs before date + max_date_difference.
PassesSeasonTest(season) ==
    \/ to_lowercase(season.title) = title
    \/ /\ air_start_date # None
       /\ \E k \in DOMAIN season.episodes :
             /\ Abs(season.episodes[k].episode_air_date - unwrap(air_start_date))
                    < max_date_difference
             /\ \A j \in 1..(k - 1) :
                   season.episodes[j].episode_air_date
                       < unwrap(air_start_date) + max_date_difference

EpisodeIds(season) == {season.episodes[k].id : k \in DOMAIN season.episodes}

\* C16: at most one season is accepted for an entry; it is the first
\* season, in the Streamer's order, that is not in treated_ids and passes
\* the season test; once it is accepted no further season is examined,
\* and every mark call of the entry targets that season: its id or the id
\* of one of its episodes.
C16_OneSeasonPerEntryTheFirstPassing ==
    /\ [](\A k, l \in DOMAIN accepted : accepted[k].entry = accepted[l].entry => k = l)
    /\ [](\A i \in DOMAIN marks :
            \E k \in DOMAIN accepted :
                /\ accepted[k].entry = marks[i].entry
                /\ accepted[k].season = marks[i].season
                /\ marks[i].content_id \in
                       {marks[i].season} \cup EpisodeIds(SeasonById(marks[i].season)))
    /\ [][SeasonAccepted =>
             /\ accepted'[Len(accepted')].season = seasons[season_i].id
             /\ accepted'[Len(accepted')].entry = idx
             /\ seasons[season_i].id \notin treated_ids
             /\ PassesSeasonTest(seasons[season_i])
             /\ \A j \in 1..(season_i - 1) :
                   seasons[j].id \in treated_ids \/ ~PassesSeasonTest(seasons[j])
             /\ pc' \in {"for", "episode", "failed"}]_vars
    /\ [][pc = "episode" => (season_i' = season_i /\ pc' \in {"episode", "for"})]_vars

\* A season that is not the first of its series was accepted, after a
\* season before it failed the test, and was marked; the entry is left.
C16_Witness ==
    /\ pc = "for"
    /\ \E k \in DOMAIN accepted :
          /\ accepted[k].entry = idx
          /\ accepted[k].season \in {<<"G", "B">>, <<"G", "H">>, <<"G", "E">>}
          /\ \E i \in DOMAIN marks : marks[i].entry = idx

\* The step gives the series up inside the season walk: the 'SEASON loop
\* is left on a season of the list with the entry reported unresolved, no
\* season accepted and no mark call made.
SeriesAbandoned ==
    /\ pc = "season" /\ season_i <= Len(seasons)
    /\ pc' = "for" /\ ~found'
    /\ stdout' = Append(stdout, title)
    /\ accepted' = accepted /\ marks' = marks /\ treated_ids' = treated_ids

\* The walk over the season under the date test reaches (no episode before
\* it within the window) an episode later than D + 60 days, no episode
\* before it being later than D + 60 days.
ReachesLaterThan60 ==
    LET eps == seasons[season_i].episodes
        D == unwrap(air_start_date)
    IN \E k \in DOMAIN eps :
          /\ eps[k].episode_air_date > D + 60
          /\ \A j \in 1..(k - 1) :
                /\ Abs(eps[j].episode_air_date - D) >= 60
                /\ ~(eps[j].episode_air_date > D + 60)

\* The same with the bound taken in: an episode at D + 60 days or later.
ReachesAtOrLaterThan60 ==
    LET eps == seasons[season_i].episodes
        D == unwrap(air_start_date)
    IN \E k \in DOMAIN eps :
          /\ eps[k].episode_air_date >= D + 60
          /\ \A j \in 1..(k - 1) :
                /\ Abs(eps[j].episode_air_date - D) >= 60
                /\ eps[j].episode_air_date < D + 60

\* A round of the 'SEASON loop on a season of the list whose listing of
\* episodes, if any, does not fail.
SeasonRound == pc = "season" /\ season_i <= Len(seasons) /\ pc' # "failed"

\* C17 as claimed: the series is given up exactly when the walk reaches an
\* episode strictly later than D + 60 days with no earlier episode of the
\* season within the window; an episode not strictly later than D + 60
\* days never gives the series up.
C17_AbandonedOnStrictlyLaterThan60 ==
    [][SeasonRound =>
          (SeriesAbandoned <=> (SeasonUnderDateTest /\ ReachesLaterThan60))]_vars

\* C17 as the code has it: the series is given up exactly when the walk
\* reaches an episode at D + 60 days or later with no earlier episode of
\* the season within the window: then no season of the series is accepted
\* for the entry, no mark call is made for it and it is reported
\* unresolved; an episode before D + 60 days never gives the series up.
C17_AbandonedOnAtOrLaterThan60 ==
    /\ [][SeasonRound =>
             (SeriesAbandoned <=> (SeasonUnderDateTest /\ ReachesAtOrLaterThan60))]_vars
    /\ [][(SeasonRound /\ SeasonUnderDateTest /\ ReachesAtOrLaterThan60) =>
             /\ ~HasAccepted(idx)'
             /\ MarksOfEntry(idx)' = << >>
             /\ pc' = "for"]_vars

\* The first entry was given up on a season whose first episode airs
\* exactly 60 days after D, or later, while a later season of the series
\* bears the query title; it is reported unresolved.
C17_Witness ==
    /\ pc = "for" /\ idx = 1 /\ ~found
    /\ season_i \in DOMAIN seasons /\ air_start_date # None
    /\ seasons[season_i].episodes[1].episode_air_date >= unwrap(air_start_date) + 60
    /\ stdout = <<title>> /\ marks = << >> /\ accepted = << >>

\* A round of the 'SEASON loop on a season of the list, for an entry that
\* has no air start date.
UndatedRound ==
    /\ pc = "season" /\ season_i <= Len(seasons)
    /\ animes[idx].node.start_date = None

\* C18: for an entry without air start date a season is accepted if and
\* only if it is not in treated_ids and its lowercased title is the query
\* title; a season of equal title is accepted with no listing of episodes
\* before the acceptance (the only listing is the one that marks the
\* episodes), and a season of another title is left for the next one
\* without its episodes being listed.
C18_UndatedEntryAcceptsByTitleOnly ==
    [][UndatedRound =>
          LET season == seasons[season_i]
              same == to_lowercase(season.title) = title
          IN /\ SeasonAccepted <=> (season.id \notin treated_ids /\ same)
             /\ SeasonAccepted =>
                   listed' = IF unwrap(status).num_episodes_watched = season.number_of_episodes
                             THEN listed ELSE Append(listed, season.id)
             /\ ~same => /\ listed' = listed /\ faults' = faults
                         /\ pc' = "season" /\ season_i' = season_i + 1]_vars

\* An undated entry passed a season of another title, unlisted, and had
\* the next season, of the query's title, accepted.
C18_Witness ==
    /\ animes # << >> /\ idx \in DOMAIN animes /\ animes[idx].node.start_date = None
    /\ season_i = 2 /\ to_lowercase(seasons[1].title) # title
    /\ HasAccepted(idx)
    /\ accepted[Len(accepted)].season = seasons[2].id
    /\ seasons[1].id \notin {listed[i] : i \in DOMAIN listed}

\* The number of entries the Tracker holds from the offset on, at most a
\* page of them: the raw size of the page served there
RawPageSize(off) == Min(max_page_size, Max(0, remote.n - off))

AllFetchesOk == \A i \in DOMAIN fetches : fetches[i].ok

\* C19: the loop of read_mal_entries goes on or stops on the raw size of
\* the page served, whatever the filter keeps of it: a page of
\* max_page_size entries is followed by the request at the next offset, a
\* shorter page ends the read, and a list whose size is a multiple of
\* max_page_size costs one more request, answered by an empty page.
C19_PaginationOnRawPageSize ==
    /\ \A i \in DOMAIN fetches :
          fetches[i].ok =>
              /\ fetches[i].len = RawPageSize(fetches[i].offset)
              /\ fetches[i].len = max_page_size =>
                    \/ /\ i < Len(fetches)
                       /\ fetches[i + 1].offset = fetches[i].offset + max_page_size
                    \/ i = Len(fetches) /\ pc = "read" /\ ~done
              /\ fetches[i].len < max_page_size => (i = Len(fetches) /\ done)
    /\ (ListRead /\ AllFetchesOk /\ remote.n % max_page_size = 0) =>
          /\ Len(fetches) = (remote.n \div max_page_size) + 1
          /\ fetches[Len(fetches)].len = 0

\* A list of two full pages, of which the filter kept less than a page,
\* was read with a third request, answered by an empty page.
C19_Witness ==
    /\ ListRead /\ AllFetchesOk
    /\ remote.n = 2 * max_page_size
    /\ Len(fetches) = 3 /\ fetches[3].len = 0
    /\ Len(animes) < max_page_size

\* C20: an entry for which a season was accepted is never reported
\* unresolved, and once the entry is left the season's identifier is in
\* treated_ids, whatever its mark calls answered and also when none was
\* made; the season is not accepted again for a later entry.
C20_AcceptedEntryResolvedAndTreated ==
    /\ StdoutButEpisode0IsUnresolvedTitles
    /\ \A k \in DOMAIN accepted :
          EntryLeft(accepted[k].entry) => accepted[k].season \in treated_ids
    /\ \A k, l \in DOMAIN accepted :
          accepted[k].season = accepted[l].season => k = l

\* What is left of C20 in the code: the entry is never reported
\* unresolved, and the title of its season is in treated_ids once the
\* entry is left.
AcceptedEntryResolvedAndTitleTreated ==
    /\ StdoutButEpisode0IsUnresolvedTitles
    /\ \A k \in DOMAIN accepted :
          EntryLeft(accepted[k].entry)
              => treated_key(SeasonById(accepted[k].season)) \in treated_ids

=============================================================================
